---------------------------- MODULE Spec2Model ----------------------------
(*************************************************************************)
(* A model of py2vyu (src/py2vyu/py2vyu.py): the Spreadsheet / Column /  *)
(* Cell entity model, Spreadsheet.merge_columns, the timestamp codec,    *)
(* the db line parser and serializer, and the archive rewrite of         *)
(* save_opf.                                                             *)
(*                                                                       *)
(* Python values that can sit in a Cell's values mapping are modelled as *)
(* tagged records (PyStr, PyInt, PyNone) so that an int ordinal and a    *)
(* str value can be compared, as Python's == compares them.              *)
(*************************************************************************)
EXTENDS Integers, Sequences, FiniteSets, TLC

VARIABLES
    columns,    \* Spreadsheet.columns: the class attribute, a dict in insertion order
    sheets,     \* the Spreadsheet instances constructed so far: their own attributes
    call,       \* the last call recorded: its name and arguments (NoCall if none)
    ret,        \* the Column the last merge_columns call returned
    db,         \* a db text: the lines load_opf reads and _to_opfdb writes
    fs,         \* the files at filename and at the temporary name
    pc          \* the statement save_opf is at

vars == <<columns, sheets, call, ret, db, fs, pc>>
files == <<db, fs, pc>>

-----------------------------------------------------------------------------
(* Bounds of the model *)

MaxTime == 3        \* onsets and offsets of input cells are in 0..MaxTime
MaxCells == 2       \* total number of cells created by new_cell
MaxDepth == 1       \* how many times a merged column is merged again
MaxSheets == 3      \* Spreadsheet instances constructed in one run

-----------------------------------------------------------------------------
(* Python values *)

PyStr(s) == [t |-> "str", s |-> s, n |-> 0]
PyInt(n) == [t |-> "int", s |-> "", n |-> n]
PyNone == [t |-> "None", s |-> "", n |-> 0]

Range(seq) == {seq[i] : i \in 1..Len(seq)}

RECURSIVE Flatten(_)
Flatten(seqs) ==
    IF seqs = <<>> THEN <<>> ELSE Head(seqs) \o Flatten(Tail(seqs))

Min(S) == CHOOSE m \in S : \A o \in S : m <= o
Max(S) == CHOOSE m \in S : \A o \in S : m >= o

\* sorted(set(...)): the elements of a finite set of numbers, ascending
RECURSIVE sorted(_)
sorted(S) ==
    IF S = {} THEN <<>> ELSE <<Min(S)>> \o sorted(S \ {Min(S)})

-----------------------------------------------------------------------------
(* Timestamp codec *)

\* A timestamp argument is a number of milliseconds or a text HH:MM:SS:mmm.
\* The text is held as the sequence of its colon-separated fields, each field
\* as the sequence of its decimal digits: "00:01:05:500" is
\* <<<<0, 0>>, <<0, 1>>, <<0, 5>>, <<5, 0, 0>>>>.
Millis(n) == [isnumber |-> TRUE, n |-> n, parts |-> <<>>]
Stamp(parts) == [isnumber |-> FALSE, n |-> 0, parts |-> parts]

\* int(part): the number a field's digits spell
RECURSIVE int(_)
int(part) ==
    IF part = <<>> THEN 0
    ELSE 10 * int(SubSeq(part, 1, Len(part) - 1)) + part[Len(part)]

\* the loop of to_millis: for factor, part in zip(factors, parts)
RECURSIVE to_millis_loop(_, _, _)
to_millis_loop(ms, factors, parts) ==
    IF factors = <<>> \/ parts = <<>> THEN ms
    ELSE to_millis_loop(ms * Head(factors) + int(Head(parts)), Tail(factors), Tail(parts))

\* to_millis
to_millis(timestamp) ==
    IF timestamp.isnumber THEN timestamp.n
    ELSE to_millis_loop(0, <<1, 60, 60, 1000>>, timestamp.parts)

\* the loop of to_timestamp: parts.append(ms % factor); ms = floor(ms / factor)
RECURSIVE to_timestamp_loop(_, _)
to_timestamp_loop(ms, factors) ==
    IF factors = <<>> THEN <<>>
    ELSE <<ms % Head(factors)>> \o to_timestamp_loop(ms \div Head(factors), Tail(factors))

\* mutant of reverse: parts.reverse() left out
reverse_none(seq) == seq

\* parts.reverse()
reverse(seq) == [i \in 1..Len(seq) |-> seq[Len(seq) + 1 - i]]

\* the decimal digits of a natural number, most significant first
RECURSIVE digits(_)
digits(n) == IF n < 10 THEN <<n>> ELSE digits(n \div 10) \o <<n % 10>>

\* "{:0w.0f}".format(part): the digits of part, padded with zeros on the left
\* to at least width characters
RECURSIVE format(_, _)
format(width, part) ==
    IF Len(part) >= width THEN part ELSE format(width, <<0>> \o part)

\* to_timestamp: the text "{:02.0f}:{:02.0f}:{:02.0f}:{:03.0f}".format(*parts)
to_timestamp(millis) ==
    LET parts == reverse(to_timestamp_loop(millis, <<1000, 60, 60, 24>>))
        widths == <<2, 2, 2, 3>>
    IN  Stamp([i \in 1..Len(parts) |-> format(widths[i], digits(parts[i]))])

-----------------------------------------------------------------------------
(* Cell *)

\* Cell.__init__(parent): every code of the parent's codelist seeded with ""
Cell_init(parent) ==
    [ordinal |-> 0, onset |-> 0, offset |-> 0,
     values |-> [k \in Range(parent.codelist) |-> PyStr("")]]

\* Cell.change_code raises on a code that is neither intrinsic nor a key
change_code_raises(cell, code) ==
    code \notin {"ordinal", "onset", "offset"} \cup DOMAIN cell.values

\* mutant of change_code: an unknown code is stored as a new key instead of
\* raising
change_code_insert(cell, code, value) ==
    IF code = "ordinal" THEN [cell EXCEPT !.ordinal = value]
    ELSE IF code = "onset" THEN [cell EXCEPT !.onset = to_millis(value)]
    ELSE IF code = "offset" THEN [cell EXCEPT !.offset = to_millis(value)]
    ELSE [cell EXCEPT !.values =
            [k \in DOMAIN cell.values \cup {code} |->
                IF k = code THEN value ELSE cell.values[k]]]

\* Cell.change_code; value is a number for ordinal, a timestamp argument for
\* onset and offset, and a Python value for a code of the codelist.  A call
\* that raises leaves the cell as it was.
change_code(cell, code, value) ==
    IF code = "ordinal" THEN [cell EXCEPT !.ordinal = value]
    ELSE IF code = "onset" THEN [cell EXCEPT !.onset = to_millis(value)]
    ELSE IF code = "offset" THEN [cell EXCEPT !.offset = to_millis(value)]
    ELSE IF code \in DOMAIN cell.values
         THEN [cell EXCEPT !.values = [@ EXCEPT ![code] = value]]
    ELSE cell

\* Cell.get_code: the intrinsics come back as Python ints
get_code(cell, code) ==
    IF code = "ordinal" THEN PyInt(cell.ordinal)
    ELSE IF code = "onset" THEN PyInt(cell.onset)
    ELSE IF code = "offset" THEN PyInt(cell.offset)
    ELSE IF code \in DOMAIN cell.values THEN cell.values[code]
    ELSE PyNone

\* Cell.set_values: zip(codelist, values) stops at the shorter of the two
RECURSIVE set_values(_, _, _)
set_values(cell, codelist, values) ==
    IF codelist = <<>> \/ values = <<>> THEN cell
    ELSE set_values(change_code(cell, Head(codelist), Head(values)),
                    Tail(codelist), Tail(values))

\* Cell.spans
spans(cell, time) == cell.onset <= time /\ time <= cell.offset

\* mutant of isempty: only None counts as empty
isempty_none(cell) == \A k \in DOMAIN cell.values : cell.values[k] = PyNone

\* Cell.isempty
isempty(cell) ==
    \A k \in DOMAIN cell.values :
        cell.values[k] = PyStr("") \/ cell.values[k] = PyNone

-----------------------------------------------------------------------------
(* Column *)

\* Column.__init__
Column_init(name, codes) == [name |-> name, codelist |-> codes, cells |-> <<>>]

\* Column.new_cell(*values, ordinal=, onset=, offset=): the new Cell
new_cell_value(col, values, ordinal, onset, offset) ==
    LET c0 == set_values(Cell_init(col), col.codelist, values)
        c1 == change_code(c0, "ordinal", ordinal)
        c2 == change_code(c1, "onset", onset)
    IN  change_code(c2, "offset", offset)

\* Column.new_cell: the column after the append
new_cell(col, values, ordinal, onset, offset) ==
    [col EXCEPT !.cells = Append(@, new_cell_value(col, values, ordinal, onset, offset))]

\* mutant of cell_at: the last spanning cell instead of the first
cell_at_last(col, time) ==
    IF \E i \in 1..Len(col.cells) : spans(col.cells[i], time)
    THEN Max({i \in 1..Len(col.cells) : spans(col.cells[i], time)})
    ELSE 0

\* Column.cell_at: the index of the first cell in storage order that spans
\* time, 0 for None
cell_at(col, time) ==
    IF \E i \in 1..Len(col.cells) : spans(col.cells[i], time)
    THEN Min({i \in 1..Len(col.cells) : spans(col.cells[i], time)})
    ELSE 0

-----------------------------------------------------------------------------
(* Spreadsheet.merge_columns *)

\* the codes of the merged column: col.name + "_" + codename for "ordinal" and
\* every code of every source column, in input order
merged_code(col, codename) == col.name \o "_" \o codename

RECURSIVE merged_codes_of(_, _)
merged_codes_of(col, codenames) ==
    IF codenames = <<>> THEN <<>>
    ELSE <<merged_code(col, Head(codenames))>> \o merged_codes_of(col, Tail(codenames))

RECURSIVE merged_codes(_)
merged_codes(cols) ==
    IF cols = <<>> THEN <<>>
    ELSE merged_codes_of(Head(cols), <<"ordinal">> \o Head(cols).codelist)
         \o merged_codes(Tail(cols))

\* all_cells: the cells of every source column
all_cells(cols) == Flatten([i \in 1..Len(cols) |-> cols[i].cells])

\* unique_times: every onset and offset
unique_times(cells) ==
    {cells[i].onset : i \in 1..Len(cells)} \cup {cells[i].offset : i \in 1..Len(cells)}

\* point_times: the onsets of the cells with onset == offset
point_times(cells) ==
    {cells[i].onset : i \in {j \in 1..Len(cells) : cells[j].onset = cells[j].offset}}

\* times: sorted(set(unique_times + [x + 1 for x in point_times]))
merge_times(cells) ==
    sorted(unique_times(cells) \cup {x + 1 : x \in point_times(cells)})

\* the inner loop over the codes of one source column: copy cell's codes
RECURSIVE copy_codes(_, _, _, _)
copy_codes(ncell, col, cell, codenames) ==
    IF codenames = <<>> THEN ncell
    ELSE copy_codes(change_code(ncell, merged_code(col, Head(codenames)),
                                get_code(cell, Head(codenames))),
                    col, cell, Tail(codenames))

\* "Don't print point cells unless point region"
skip_point(onset, offset, cell) == onset # offset /\ cell.onset = cell.offset

\* the loop over the source columns for one interval
RECURSIVE fill_cell(_, _, _, _)
fill_cell(ncell, cols, onset, offset) ==
    IF cols = <<>> THEN ncell
    ELSE LET col == Head(cols)
             i == cell_at(col, onset)
         IN  IF i = 0 \/ skip_point(onset, offset, col.cells[i])
             THEN fill_cell(ncell, Tail(cols), onset, offset)
             ELSE fill_cell(copy_codes(ncell, col, col.cells[i],
                                       <<"ordinal">> \o col.codelist),
                            Tail(cols), onset, offset)

\* mutant of next_prev_time: the next interval starts where this one ends
next_prev_time_same(offset) == offset

\* the onset of the interval after the one ending at offset: prev_time = offset + 1
next_prev_time(offset) == offset + 1

\* "Remove this cell if empty and we are pruning"
prune_cell(prune, ncell) == prune /\ isempty(ncell)

\* the loop over times[1:], from index i on
RECURSIVE merge_loop(_, _, _, _, _, _, _)
merge_loop(ncol, cols, prune, times, i, prev_time, ordinal) ==
    IF i > Len(times) THEN ncol
    ELSE LET onset == prev_time
             offset == times[i]
             ncell == fill_cell(new_cell_value(ncol, <<>>, ordinal, Millis(onset),
                                               Millis(offset)),
                                cols, onset, offset)
         IN  IF prune_cell(prune, ncell)
             THEN merge_loop(ncol, cols, prune, times, i + 1,
                             next_prev_time(offset), ordinal)
             ELSE merge_loop([ncol EXCEPT !.cells = Append(@, ncell)], cols, prune,
                             times, i + 1, next_prev_time(offset), ordinal + 1)

\* times[0] raises IndexError when the source columns hold no cell at all
merge_raises(cols) == all_cells(cols) = <<>>

\* Spreadsheet.merge_columns(name, prune, *columns) on the mapped columns
merge_columns(name, prune, cols) ==
    LET times == merge_times(all_cells(cols))
    IN  merge_loop(Column_init(name, merged_codes(cols)), cols, prune,
                   times, 2, times[1], 1)

-----------------------------------------------------------------------------
(* Spreadsheet: the columns dict and the calls made on it *)

\* the inputs of the calls
ColumnDecls == {[name |-> "A", codes |-> <<"x">>], [name |-> "B", codes |-> <<"y">>]}
MergeNames == {"M"}

\* the positional values new_cell is called with for a cell of column name:
\* one value for A, none for B (whose code keeps the default "")
CellValues(name) == IF name = "A" THEN <<PyStr("hi")>> ELSE <<>>

\* name in self.columns
has_column(dict, name) == \E i \in 1..Len(dict) : dict[i].name = name

\* self.columns[name]
get_column(dict, name) ==
    dict[CHOOSE i \in 1..Len(dict) : dict[i].name = name]

\* self.columns[name] = col: a new key goes last, an old key keeps its place
dict_set(dict, name, col) ==
    IF has_column(dict, name)
    THEN [i \in 1..Len(dict) |-> IF dict[i].name = name THEN col ELSE dict[i]]
    ELSE Append(dict, col)

\* Spreadsheet.get_column_list
get_column_list(dict) == [i \in 1..Len(dict) |-> dict[i].name]

\* an argument of merge_columns: a column name or a Column
ByName(name) == [isstr |-> TRUE, name |-> name, col |-> Column_init("", <<>>)]
ByHandle(col) == [isstr |-> FALSE, name |-> "", col |-> col]

\* Spreadsheet.map_columns
map_columns(dict, args) ==
    [i \in 1..Len(args) |->
        IF args[i].isstr THEN get_column(dict, args[i].name) ELSE args[i].col]

\* the columns merge_columns works on: all of the sheet's when none is given
merge_sources(dict, args) == IF Len(args) = 0 THEN dict ELSE map_columns(dict, args)

\* mutant of columns_after_merge: the new column is stored under its name
columns_after_merge_stored(dict, name, ncol) ==
    IF \E i \in 1..Len(dict) : dict[i].name = name
    THEN [i \in 1..Len(dict) |-> IF dict[i].name = name THEN ncol ELSE dict[i]]
    ELSE Append(dict, ncol)

\* the Spreadsheet's columns once merge_columns has returned ncol: the new
\* column is built with Column(name, *codes) and is not stored
columns_after_merge(dict, name, ncol) == dict

NumCells(dict) == Len(all_cells(dict))

\* Spreadsheet.__init__ is "pass": the instance gets no attribute of its own
Spreadsheet_init == [own |-> FALSE, columns |-> <<>>]

\* self.columns, looked up on the instance and then on the class
sheet_columns(s) == IF sheets[s].own THEN sheets[s].columns ELSE columns

\* self.columns[name] = ...: the dict self.columns resolves to is changed in place
SetSheetColumns(s, dict) ==
    IF sheets[s].own
    THEN /\ sheets' = [sheets EXCEPT ![s].columns = dict]
         /\ UNCHANGED columns
    ELSE /\ columns' = dict
         /\ UNCHANGED sheets

NoCall == [op |-> "none"]
NoColumn == Column_init("", <<>>)

NoFile == [exists |-> FALSE, iszip |-> FALSE, comment |-> "", members |-> <<>>]
NoFiles == [filename |-> NoFile, tmpname |-> NoFile]

\* one Spreadsheet has been constructed
Init ==
    /\ columns = <<>>
    /\ sheets = <<Spreadsheet_init>>
    /\ call = NoCall
    /\ ret = NoColumn
    /\ db = <<>>
    /\ fs = NoFiles
    /\ pc = "idle"

\* sheet.new_column(name, *codes): the columns dict afterwards
new_column(dict, name, codes) == dict_set(dict, name, Column_init(name, codes))

\* A run populates the sheet and then merges; nothing is lost by it, since
\* merge_columns leaves the sheet as it was.
NewColumn(s, decl) ==
    /\ call = NoCall
    /\ SetSheetColumns(s, new_column(sheet_columns(s), decl.name, decl.codes))
    /\ UNCHANGED <<call, ret, files>>

\* col.new_cell(*values, ordinal=, onset=, offset=), with the ordinal counting
\* the column's cells from 1 as load_opf's ordinal_counter does
NewCell(s, name, onset, offset) ==
    /\ call = NoCall
    /\ has_column(sheet_columns(s), name)
    /\ NumCells(sheet_columns(s)) < MaxCells
    /\ onset <= offset
    /\ LET col == get_column(sheet_columns(s), name)
       IN  SetSheetColumns(s, dict_set(sheet_columns(s), name,
                                       new_cell(col, CellValues(name),
                                                Len(col.cells) + 1, Millis(onset),
                                                Millis(offset))))
    /\ UNCHANGED <<call, ret, files>>

\* the call sheet.merge_columns(name, prune, *args), whose sources are cols
DoMerge(s, name, prune, cols, depth) ==
    /\ call' = [op |-> "merge_columns", sheet |-> s, name |-> name, prune |-> prune,
                cols |-> cols, depth |-> depth, raised |-> merge_raises(cols),
                before |-> sheet_columns(s)]
    /\ IF merge_raises(cols)
       THEN /\ ret' = NoColumn
            /\ UNCHANGED <<columns, sheets>>
       ELSE /\ ret' = merge_columns(name, prune, cols)
            /\ SetSheetColumns(s, columns_after_merge(sheet_columns(s), name, ret'))
    /\ UNCHANGED files

\* merge_columns on the sheet's own columns: all of them, or all by name
MergeColumns(s, name, prune, args) ==
    /\ call = NoCall
    /\ \A i \in 1..Len(args) : has_column(sheet_columns(s), args[i].name)
    /\ DoMerge(s, name, prune, merge_sources(sheet_columns(s), args), 0)

\* the same merge_columns call again, with the column the last one returned
\* as the single source
MergeReturned(name) ==
    /\ call.op = "merge_columns"
    /\ ~call.raised
    /\ call.depth < MaxDepth
    /\ DoMerge(call.sheet, name, call.prune,
               merge_sources(sheet_columns(call.sheet), <<ByHandle(ret)>>),
               call.depth + 1)

Next ==
    \/ \E s \in DOMAIN sheets, decl \in ColumnDecls : NewColumn(s, decl)
    \/ \E s \in DOMAIN sheets, decl \in ColumnDecls, onset, offset \in 0..MaxTime :
            NewCell(s, decl.name, onset, offset)
    \/ \E s \in DOMAIN sheets, name \in MergeNames, prune \in BOOLEAN :
          \E args \in {<<>>, [i \in 1..Len(sheet_columns(s)) |->
                                 ByName(sheet_columns(s)[i].name)]} :
            MergeColumns(s, name, prune, args)
    \/ \E name \in MergeNames : MergeReturned(name)

Spec == Init /\ [][Next]_vars

-----------------------------------------------------------------------------
(* Properties of merge_columns, checked under Spec *)

\* merge_columns has returned a column
Merged == call.op = "merge_columns" /\ ~call.raised

Sources == call.cols

IsPoint(cell) == cell.onset = cell.offset

\* the indices of the cells of col that span t
Spanning(col, t) == {i \in 1..Len(col.cells) : col.cells[i].onset <= t /\ t <= col.cells[i].offset}

\* no instant is spanned by two cells of col
NonOverlapping(col) ==
    \A i, j \in 1..Len(col.cells) :
        i # j => col.cells[i].offset < col.cells[j].onset
                 \/ col.cells[j].offset < col.cells[i].onset

InputOnsets == {all_cells(Sources)[i].onset : i \in 1..Len(all_cells(Sources))}
InputOffsets == {all_cells(Sources)[i].offset : i \in 1..Len(all_cells(Sources))}
InputPoints ==
    {all_cells(Sources)[i].onset :
        i \in {j \in 1..Len(all_cells(Sources)) : IsPoint(all_cells(Sources)[j])}}

\* the value a merged cell holds for a code of the source column named cname
Carried(mcell, cname, code) == mcell.values[cname \o "_" \o code]

\* C1: when no source column has overlapping cells, every merged cell sees, in
\* every source column, at most one spanning cell, and the same set of
\* spanning cells at every instant from its onset to its offset.
C1_ConstantActivity ==
    (Merged /\ \A j \in 1..Len(Sources) : NonOverlapping(Sources[j])) =>
        \A i \in 1..Len(ret.cells) : \A j \in 1..Len(Sources) :
            \A t \in ret.cells[i].onset..ret.cells[i].offset :
                /\ Cardinality(Spanning(Sources[j], t)) <= 1
                /\ Spanning(Sources[j], t) = Spanning(Sources[j], ret.cells[i].onset)

\* consecutive merged cells are one millisecond apart, from the least onset on
TilesFromFirstOnset ==
    /\ Len(ret.cells) >= 1
    /\ \A i \in 1..(Len(ret.cells) - 1) :
            ret.cells[i].offset + 1 = ret.cells[i + 1].onset
    /\ ret.cells[1].onset = Min(InputOnsets)

Unpruned ==
    Merged /\ ~call.prune /\ Cardinality(InputOnsets \cup InputOffsets) >= 2

\* C2 as stated: without pruning and with two distinct boundary times or more,
\* the merged cells tile the timeline from the least input onset to the
\* greatest input offset, point cells included.
C2_TilesInputTimeline ==
    Unpruned =>
        /\ TilesFromFirstOnset
        /\ ret.cells[Len(ret.cells)].offset = Max(InputOffsets)

\* C2 amended: the same tiling, ending at the greatest input offset or, when a
\* point cell sits there, one millisecond after it.
C2_TilesToSyntheticEnd ==
    Unpruned =>
        /\ TilesFromFirstOnset
        /\ ret.cells[Len(ret.cells)].offset
             = Max(InputOffsets \cup {p + 1 : p \in InputPoints})

\* a merge without pruning of several cells, the last of them a point cell at
\* the end of the timeline
C2_Witness ==
    /\ Unpruned
    /\ Len(ret.cells) >= 2
    /\ Max(InputOffsets) \in InputPoints
    /\ ret.cells[Len(ret.cells)].offset = Max(InputOffsets) + 1

\* C3: every point cell of a source column has a merged cell starting at its
\* time that carries its ordinal and its values.
C3_PointCellsKept ==
    Merged =>
        \A j \in 1..Len(Sources) : \A k \in 1..Len(Sources[j].cells) :
            LET c == Sources[j].cells[k]
            IN  IsPoint(c) =>
                    \E i \in 1..Len(ret.cells) :
                        /\ ret.cells[i].onset = c.onset
                        /\ Carried(ret.cells[i], Sources[j].name, "ordinal")
                             = PyInt(c.ordinal)
                        /\ \A code \in Range(Sources[j].codelist) :
                             Carried(ret.cells[i], Sources[j].name, code) = c.values[code]

\* the cell of col a merged cell over [onset, offset] takes its codes from: the
\* first in storage order that spans onset, unless it is a point cell and the
\* interval is not; 0 when there is none
ActiveAt(col, onset, offset) ==
    IF Spanning(col, onset) = {} THEN 0
    ELSE LET first == CHOOSE i \in Spanning(col, onset) :
                          \A o \in Spanning(col, onset) : i <= o
         IN  IF IsPoint(col.cells[first]) /\ onset # offset THEN 0 ELSE first

\* the scenario of C4 with its own times: A = [0, 5000]:(hi), B = [2000, 7000]:(lo)
ExampleA ==
    new_cell(Column_init("A", <<"x">>), <<PyStr("hi")>>, 1, Millis(0), Millis(5000))
ExampleB ==
    new_cell(Column_init("B", <<"y">>), <<PyStr("lo")>>, 1, Millis(2000), Millis(7000))
ExampleMerged == merge_columns("M", FALSE, <<ExampleA, ExampleB>>)
ExampleHolds ==
    /\ Len(ExampleMerged.cells) = 3
    /\ [i \in 1..3 |-> <<ExampleMerged.cells[i].values["A_x"],
                         ExampleMerged.cells[i].values["B_y"]>>]
         = << <<PyStr("hi"), PyStr("")>>, <<PyStr("hi"), PyStr("lo")>>,
              <<PyStr(""), PyStr("lo")>> >>

\* C4: each merged cell carries, for every source column, the ordinal and the
\* values of the cell active at its onset, and the empty string where none
\* is; the scenario A = [0, 5000], B = [2000, 7000] gives the three cells
\* (hi, ''), (hi, lo), ('', lo).
C4_CodesFromOnset ==
    /\ ExampleHolds
    /\ Merged =>
        \A i \in 1..Len(ret.cells) : \A j \in 1..Len(Sources) :
            LET m == ret.cells[i]
                col == Sources[j]
                a == ActiveAt(col, m.onset, m.offset)
            IN  IF a # 0
                THEN /\ Carried(m, col.name, "ordinal") = PyInt(col.cells[a].ordinal)
                     /\ \A code \in Range(col.codelist) :
                            Carried(m, col.name, code) = col.cells[a].values[code]
                ELSE \A code \in {"ordinal"} \cup Range(col.codelist) :
                            Carried(m, col.name, code) = PyStr("")

\* two columns of one cell each, overlapping as in the scenario, merged
\* without pruning into three cells: A alone, both, B alone
C4_Witness ==
    /\ Merged /\ ~call.prune /\ call.depth = 0
    /\ Len(Sources) = 2
    /\ Len(Sources[1].cells) = 1 /\ Len(Sources[2].cells) = 1
    /\ Sources[1].cells[1].onset < Sources[2].cells[1].onset
    /\ Sources[2].cells[1].onset < Sources[1].cells[1].offset
    /\ Sources[1].cells[1].offset < Sources[2].cells[1].offset
    /\ Len(ret.cells) = 3
    /\ ActiveAt(Sources[1], ret.cells[1].onset, ret.cells[1].offset) = 1
    /\ ActiveAt(Sources[2], ret.cells[1].onset, ret.cells[1].offset) = 0
    /\ ActiveAt(Sources[1], ret.cells[2].onset, ret.cells[2].offset) = 1
    /\ ActiveAt(Sources[2], ret.cells[2].onset, ret.cells[2].offset) = 1
    /\ ActiveAt(Sources[1], ret.cells[3].onset, ret.cells[3].offset) = 0
    /\ ActiveAt(Sources[2], ret.cells[3].onset, ret.cells[3].offset) = 1

\* C5: merging a column that merge_columns returned, as the single source,
\* gives as many cells, with the same onsets and offsets and, under the codes
\* prefixed with its name, the same values.
C5_RemergeIdempotent ==
    (Merged /\ call.depth >= 1) =>
        LET M == Sources[1]
        IN  /\ Len(ret.cells) = Len(M.cells)
            /\ \A i \in 1..Len(M.cells) :
                /\ ret.cells[i].onset = M.cells[i].onset
                /\ ret.cells[i].offset = M.cells[i].offset
                /\ \A code \in Range(M.codelist) :
                      Carried(ret.cells[i], M.name, code) = M.cells[i].values[code]

\* C9 as stated: once merge_columns(name, ...) has returned, the sheet holds
\* the returned column under name.
C9_MergedColumnStored ==
    Merged =>
        /\ has_column(sheet_columns(call.sheet), call.name)
        /\ get_column(sheet_columns(call.sheet), call.name) = ret
        /\ call.name \in Range(get_column_list(sheet_columns(call.sheet)))

\* C9 amended: merge_columns returns a column named name and leaves the
\* sheet's columns, and so get_column and get_column_list, as they were
\* when it was called.
C9_MergedColumnReturnedOnly ==
    Merged =>
        /\ ret.name = call.name
        /\ sheet_columns(call.sheet) = call.before
        /\ get_column_list(sheet_columns(call.sheet)) = get_column_list(call.before)

\* a merge has returned a column with cells in it, named as asked, and the
\* sheet holds no column of that name
C9_Witness ==
    /\ Merged
    /\ ret.name = call.name
    /\ Len(ret.cells) >= 1
    /\ ~has_column(sheet_columns(call.sheet), call.name)

\* C10: with pruning, every cell of the returned column has a code whose value
\* is neither '' nor None.
C10_NoEmptyCellAfterPrune ==
    (Merged /\ call.prune) =>
        \A i \in 1..Len(ret.cells) :
            \E code \in Range(ret.codelist) :
                /\ ret.cells[i].values[code] # PyStr("")
                /\ ret.cells[i].values[code] # PyNone

\* a pruning merge that dropped an interval and kept another
C10_Witness ==
    /\ Merged /\ call.prune
    /\ Len(ret.cells) >= 1
    /\ Len(ret.cells) < Len(merge_times(all_cells(Sources))) - 1

-----------------------------------------------------------------------------
(* The db text: load_opf's line loop and _to_opfdb *)

\* A line of the db text is held as what _parse_line finds in it: the kind of
\* the first of the two formats that matches and the groups of the match.
\* A comma-separated text (the codes of a column line, the values of a cell
\* line) is held as the sequence of its fields, which is never empty: the
\* empty text splits into one empty field.  A code entry name|TYPE is held as
\* its two halves.
ColumnLine(colname, codes) ==
    [kind |-> "column", colname |-> colname, codes |-> codes,
     onset |-> <<>>, offset |-> <<>>, values |-> <<>>, text |-> ""]
CellLine(onset, offset, values) ==
    [kind |-> "cell", colname |-> "", codes |-> <<>>,
     onset |-> onset, offset |-> offset, values |-> values, text |-> ""]
OtherLine(text) ==
    [kind |-> "none", colname |-> "", codes |-> <<>>,
     onset |-> <<>>, offset |-> <<>>, values |-> <<>>, text |-> text]
CodeEntry(name, type) == [name |-> name, type |-> type]

\* ",".join(fields), as the fields that text splits into
join_comma(fields, empty) == IF fields = <<>> THEN <<empty>> ELSE fields

\* [x.split("|")[0] for x in match.group("codes").split(",")]
parse_codes(codes) == [i \in 1..Len(codes) |-> codes[i].name]

\* load_opf opens a column before the first cell line, or col is None there
RECURSIVE load_raises(_, _)
load_raises(lines, open) ==
    IF lines = <<>> THEN FALSE
    ELSE IF Head(lines).kind = "column" THEN load_raises(Tail(lines), TRUE)
    ELSE IF Head(lines).kind = "cell" THEN ~open \/ load_raises(Tail(lines), open)
    ELSE load_raises(Tail(lines), open)

\* the line loop of load_opf on the columns dict of the new sheet; colname
\* names the column col refers to, ordinal_counter is the next ordinal
RECURSIVE load_loop(_, _, _, _)
load_loop(dict, lines, colname, ordinal_counter) ==
    IF lines = <<>> THEN dict
    ELSE LET line == Head(lines)
         IN  IF line.kind = "column"
             THEN load_loop(new_column(dict, line.colname, parse_codes(line.codes)),
                            Tail(lines), line.colname, 1)
             ELSE IF line.kind = "cell"
             THEN load_loop(
                    dict_set(dict, colname,
                             new_cell(get_column(dict, colname),
                                      [i \in 1..Len(line.values) |-> PyStr(line.values[i])],
                                      ordinal_counter,
                                      Millis(to_millis(Stamp(line.onset))),
                                      Millis(to_millis(Stamp(line.offset))))),
                    Tail(lines), colname, ordinal_counter + 1)
             ELSE load_loop(dict, Tail(lines), colname, ordinal_counter)

\* Cell.get_values(): the values in codelist order
get_values(cell, codelist) == [i \in 1..Len(codelist) |-> get_code(cell, codelist[i])]

\* Cell._to_opfdb
Cell_to_opfdb(cell, codelist) ==
    CellLine(to_timestamp(cell.onset).parts, to_timestamp(cell.offset).parts,
             join_comma([i \in 1..Len(codelist) |-> get_values(cell, codelist)[i].s], ""))

\* Column._to_opfdb: the header and one line per cell in storage order
Column_to_opfdb(col) ==
    <<ColumnLine(col.name,
                 join_comma([i \in 1..Len(col.codelist) |->
                                CodeEntry(col.codelist[i], "NOMINAL")],
                            CodeEntry("", "")))>>
    \o [i \in 1..Len(col.cells) |-> Cell_to_opfdb(col.cells[i], col.codelist)]

\* Spreadsheet._to_opfdb(columns=names)
Spreadsheet_to_opfdb(dict, names) ==
    Flatten([i \in 1..Len(names) |-> Column_to_opfdb(get_column(dict, names[i]))])

\* the texts a run starts from: a version line, a column A with one or two
\* cells and, in some, a column B whose codes are not NOMINAL
Stamps ==
    {<<<<0, 0>>, <<0, 0>>, <<0, 0>>, <<0, 0, 0>>>>,
     <<<<0, 0>>, <<0, 0>>, <<0, 1>>, <<5, 0, 0>>>>,
     <<<<2, 3>>, <<5, 9>>, <<5, 9>>, <<9, 9, 9>>>>,
     <<<<2, 4>>, <<0, 0>>, <<0, 0>>, <<0, 0, 0>>>>}
ValueTexts == {<<"">>, <<"hi">>, <<"hi", "lo">>}
DbTails ==
    {<<>>,
     <<CellLine(<<<<0, 0>>, <<0, 0>>, <<0, 2>>, <<0, 0, 0>>>>,
                <<<<0, 0>>, <<0, 0>>, <<0, 3>>, <<0, 0, 0>>>>, <<"lo">>)>>,
     <<ColumnLine("B", <<CodeEntry("y", "TEXT"), CodeEntry("z", "NOMINAL")>>),
       CellLine(<<<<0, 0>>, <<0, 0>>, <<0, 0>>, <<0, 0, 0>>>>,
                <<<<0, 0>>, <<0, 0>>, <<0, 0>>, <<0, 0, 0>>>>, <<"p">>)>>}
DbTexts ==
    {<<OtherLine("#4"), ColumnLine("A", <<CodeEntry("x", "NOMINAL")>>),
       CellLine(onset, offset, values)>> \o tail :
        onset \in Stamps, offset \in Stamps, values \in ValueTexts, tail \in DbTails}

\* sheet = load_opf(filename) on the text lines: a Spreadsheet is constructed
\* and populated
DoLoad(lines) ==
    /\ Len(sheets) < MaxSheets
    /\ ~load_raises(lines, FALSE)
    /\ call' = [op |-> "load_opf", sheet |-> Len(sheets) + 1,
                reload |-> (call.op = "_to_opfdb"),
                before |-> IF call.op = "_to_opfdb" THEN sheet_columns(call.sheet)
                           ELSE <<>>]
    /\ sheets' = Append(sheets, Spreadsheet_init)
    /\ columns' = load_loop(IF Spreadsheet_init.own THEN <<>> ELSE columns, lines, "", 1)
    /\ UNCHANGED ret

LoadOpf ==
    /\ DoLoad(db)
    /\ UNCHANGED files

\* text = sheet._to_opfdb(columns=sheet.get_column_list())
ToOpfdb(s) ==
    /\ call.op = "load_opf"
    /\ db' = Spreadsheet_to_opfdb(sheet_columns(s), get_column_list(sheet_columns(s)))
    /\ call' = [op |-> "_to_opfdb", sheet |-> s]
    /\ UNCHANGED <<columns, sheets, ret, fs, pc>>

InitRoundTrip ==
    /\ columns = <<>>
    /\ sheets = <<>>
    /\ call = NoCall
    /\ ret = NoColumn
    /\ db \in DbTexts
    /\ fs = NoFiles
    /\ pc = "idle"

NextRoundTrip ==
    \/ LoadOpf
    \/ \E s \in DOMAIN sheets : ToOpfdb(s)

SpecRoundTrip == InitRoundTrip /\ [][NextRoundTrip]_vars

\* C8: a column set built from well-formed lines, written by _to_opfdb and
\* parsed by load_opf's line loop, comes back the same: names, codelists,
\* values, ordinals, onsets and offsets.
C8_RoundTrip ==
    (call.op = "load_opf" /\ call.reload) => sheet_columns(call.sheet) = call.before

-----------------------------------------------------------------------------
(* Spreadsheet instances *)

\* sheet = Spreadsheet()
Construct ==
    /\ Len(sheets) < MaxSheets
    /\ sheets' = Append(sheets, Spreadsheet_init)
    /\ call' = [op |-> "Spreadsheet", sheet |-> Len(sheets) + 1]
    /\ UNCHANGED <<columns, ret, files>>

\* sheet.new_column(name, *codes), recorded with the columns every instance
\* showed before the call
SheetNewColumn(s, decl) ==
    /\ SetSheetColumns(s, new_column(sheet_columns(s), decl.name, decl.codes))
    /\ call' = [op |-> "new_column", sheet |-> s,
                seen |-> [o \in DOMAIN sheets |-> sheet_columns(o)]]
    /\ UNCHANGED <<ret, files>>

InitSheets ==
    /\ columns = <<>>
    /\ sheets = <<>>
    /\ call = NoCall
    /\ ret = NoColumn
    /\ db \in DbTexts
    /\ fs = NoFiles
    /\ pc = "idle"

NextSheets ==
    \/ Construct
    \/ \E s \in DOMAIN sheets, decl \in ColumnDecls : SheetNewColumn(s, decl)
    \/ LoadOpf

SpecSheets == InitSheets /\ [][NextSheets]_vars

\* C7: a Spreadsheet just constructed has no columns, and new_column on one
\* instance leaves the columns seen through every other instance as they were.
C7_OwnColumns ==
    /\ call.op = "Spreadsheet" => sheet_columns(call.sheet) = <<>>
    /\ call.op = "new_column" =>
            \A o \in DOMAIN sheets \ {call.sheet} : sheet_columns(o) = call.seen[o]

-----------------------------------------------------------------------------
(* save_opf *)

\* a zip archive: its comment and its members in infolist() order; every
\* member's data is held as a sequence of lines
Archive(comment, members) ==
    [exists |-> TRUE, iszip |-> TRUE, comment |-> comment, members |-> members]
Member(filename, data) == [filename |-> filename, data |-> data]

\* zf.namelist()
namelist(file) == [i \in 1..Len(file.members) |-> file.members[i].filename]

\* zf.open("db")
read_member(file, filename) ==
    file.members[CHOOSE i \in 1..Len(file.members) :
                    file.members[i].filename = filename].data

\* the archives a run starts from
SavedTexts ==
    {<<ColumnLine("A", <<CodeEntry("x", "NOMINAL")>>),
       CellLine(<<<<0, 0>>, <<0, 0>>, <<0, 0>>, <<0, 0, 0>>>>,
                <<<<0, 0>>, <<0, 0>>, <<0, 1>>, <<0, 0, 0>>>>, <<"hi">>)>>,
     <<ColumnLine("A", <<CodeEntry("x", "NOMINAL")>>),
       ColumnLine("B", <<CodeEntry("y", "NOMINAL")>>),
       CellLine(<<<<0, 0>>, <<0, 0>>, <<0, 1>>, <<0, 0, 0>>>>,
                <<<<0, 0>>, <<0, 0>>, <<0, 1>>, <<0, 0, 0>>>>, <<"lo">>)>>}
Archives ==
    {Archive(comment, before \o <<Member("db", text)>> \o after) :
        comment \in {"", "study"}, text \in SavedTexts,
        before \in {<<>>, <<Member("project", <<OtherLine("v5")>>)>>},
        after \in {<<>>, <<Member("media", <<OtherLine("mp4")>>)>>}}

\* tempfile.mkstemp and os.close: an empty file beside filename
EmptyFile == [exists |-> TRUE, iszip |-> FALSE, comment |-> "", members |-> <<>>]

\* the archive save_opf is to leave at filename: the members other than db in
\* their order, then the new db
rewritten(file, newdb) ==
    [file EXCEPT !.members =
        LET keep == {i \in 1..Len(file.members) : file.members[i].filename # "db"}
        IN  [k \in 1..Cardinality(keep) |-> file.members[sorted(keep)[k]]]
            \o <<Member("db", newdb)>>]

\* sheet = load_opf(filename)
SaveLoad ==
    /\ pc = "idle"
    /\ fs.filename.exists /\ fs.filename.iszip
    /\ "db" \in Range(namelist(fs.filename))
    /\ DoLoad(read_member(fs.filename, "db"))
    /\ UNCHANGED files

\* save_opf(sheet, filename, *names) up to os.close(tmpfd)
SaveMkstemp(s, names) ==
    /\ pc = "idle"
    /\ call.op = "load_opf"
    /\ fs' = [fs EXCEPT !.tmpname = EmptyFile]
    /\ pc' = "open"
    /\ call' = [op |-> "save_opf", sheet |-> s, names |-> names, item |-> 1,
                original |-> fs.filename]
    /\ UNCHANGED <<columns, sheets, ret, db>>

\* the two ZipFile(...) and zfout.comment = zfin.comment
SaveOpen ==
    /\ pc = "open"
    /\ fs.filename.exists /\ fs.filename.iszip
    /\ fs' = [fs EXCEPT !.tmpname = [EmptyFile EXCEPT !.comment = fs.filename.comment]]
    /\ pc' = "copy"
    /\ UNCHANGED <<columns, sheets, call, ret, db>>

\* one turn of the loop over zfin.infolist()
SaveCopy ==
    /\ pc = "copy"
    /\ call.item <= Len(fs.filename.members)
    /\ fs' = IF fs.filename.members[call.item].filename # "db"
             THEN [fs EXCEPT !.tmpname.members = Append(@, fs.filename.members[call.item])]
             ELSE fs
    /\ call' = [call EXCEPT !.item = @ + 1]
    /\ UNCHANGED <<columns, sheets, ret, db, pc>>

\* the end of the loop: both archives are closed
SaveClose ==
    /\ pc = "copy"
    /\ call.item > Len(fs.filename.members)
    /\ fs' = [fs EXCEPT !.tmpname.iszip = TRUE]
    /\ pc' = "remove"
    /\ UNCHANGED <<columns, sheets, call, ret, db>>

\* os.remove(filename)
SaveRemove ==
    /\ pc = "remove"
    /\ fs' = [fs EXCEPT !.filename = NoFile]
    /\ pc' = "rename"
    /\ UNCHANGED <<columns, sheets, call, ret, db>>

\* os.rename(tmpname, filename)
SaveRename ==
    /\ pc = "rename"
    /\ fs' = [filename |-> fs.tmpname, tmpname |-> NoFile]
    /\ pc' = "append"
    /\ UNCHANGED <<columns, sheets, call, ret, db>>

\* the text save_opf writes: "#4\n" + sheet._to_opfdb(columns=columns)
saved_text(dict, names) == <<OtherLine("#4")>> \o Spreadsheet_to_opfdb(dict, names)

\* ZipFile(filename, mode="a") and zf.writestr("db", ...)
SaveAppend ==
    /\ pc = "append"
    /\ fs' = [fs EXCEPT !.filename.members =
                Append(@, Member("db", saved_text(sheet_columns(call.sheet), call.names)))]
    /\ pc' = "idle"
    /\ UNCHANGED <<columns, sheets, call, ret, db>>

InitSave ==
    /\ columns = <<>>
    /\ sheets = <<>>
    /\ call = NoCall
    /\ ret = NoColumn
    /\ db = <<>>
    /\ fs \in {[filename |-> a, tmpname |-> NoFile] : a \in Archives}
    /\ pc = "idle"

NextSave ==
    \/ SaveLoad
    \/ \E s \in DOMAIN sheets :
         \E names \in {<<>>, get_column_list(sheet_columns(s))} : SaveMkstemp(s, names)
    \/ SaveOpen
    \/ SaveCopy
    \/ SaveClose
    \/ SaveRemove
    \/ SaveRename
    \/ SaveAppend

SpecSave == InitSave /\ [][NextSave]_vars

\* C6: wherever save_opf stops, the file at filename is the archive that was
\* there when it was called or the fully rewritten one: the other members and
\* the new db.
C6_AtomicRewrite ==
    call.op = "save_opf" =>
        \/ fs.filename = call.original
        \/ fs.filename
             = rewritten(call.original,
                         saved_text(sheet_columns(call.sheet), call.names))

-----------------------------------------------------------------------------
(* The timestamp codec on its own *)

\* one day of milliseconds
DayMillis == 24 * 3600 * 1000

\* the numbers of milliseconds handed to to_timestamp: every combination of
\* fields at the ends of their ranges and where their digit count changes,
\* with hours within the day (0..23) and beyond it (24, 99)
HourSamples == {0, 1, 9, 10, 23, 24, 99}
MinuteSamples == {0, 9, 59}
SecondSamples == {0, 10, 59}
MilliSamples == {0, 9, 99, 100, 999}
CodecInputs ==
    {((h * 60 + m) * 60 + sec) * 1000 + ms :
        h \in HourSamples, m \in MinuteSamples, sec \in SecondSamples,
        ms \in MilliSamples}

\* text = to_timestamp(n)
ToTimestamp(n) ==
    /\ call' = [op |-> "to_timestamp", millis |-> n, text |-> to_timestamp(n)]
    /\ UNCHANGED <<columns, sheets, ret, db, fs, pc>>

\* result = to_millis(text), on the text to_timestamp returned
ToMillis ==
    /\ call.op = "to_timestamp"
    /\ call' = [op |-> "to_millis", millis |-> call.millis, text |-> call.text,
                result |-> to_millis(call.text)]
    /\ UNCHANGED <<columns, sheets, ret, db, fs, pc>>

InitCodec ==
    /\ columns = <<>>
    /\ sheets = <<>>
    /\ call = NoCall
    /\ ret = NoColumn
    /\ db = <<>>
    /\ fs = NoFiles
    /\ pc = "idle"

NextCodec ==
    \/ \E n \in CodecInputs : ToTimestamp(n)
    \/ ToMillis

SpecCodec == InitCodec /\ [][NextCodec]_vars

\* C12: to_millis(to_timestamp(n)) = n for every n with 0 <= n < 24*3600*1000
C12_CodecRoundTrip ==
    (call.op = "to_millis" /\ 0 <= call.millis /\ call.millis < DayMillis)
        => call.result = call.millis

\* C12 witness: the last millisecond of the day went through both functions,
\* as the text 23:59:59:999
C12_Witness ==
    /\ call.op = "to_millis"
    /\ call.millis = DayMillis - 1
    /\ call.text = Stamp(<<<<2, 3>>, <<5, 9>>, <<5, 9>>, <<9, 9, 9>>>>)
    /\ call.result = call.millis

-----------------------------------------------------------------------------
(* Cells and their values mapping *)

\* the codelists of the column the calls work on: no code, one code, the same
\* code twice, and a code followed by one named like an intrinsic
CellCodelists == {<<>>, <<"x">>, <<"x", "x">>, <<"x", "onset">>}

Intrinsics == {"ordinal", "onset", "offset"}

\* a code no codelist has
UnknownCode == "zz"

\* the values a call passes for a code: a number for ordinal, a number of
\* milliseconds for onset, a timestamp text for offset, a str for any other
\* code
CodeArgs(code) ==
    IF code = "ordinal" THEN {1}
    ELSE IF code = "onset" THEN {Millis(1)}
    ELSE IF code = "offset"
         THEN {Stamp(<<<<0, 0>>, <<0, 0>>, <<0, 0>>, <<0, 0, 1>>>>)}
    ELSE {PyStr("hi")}

\* the positional values of set_values and new_cell: one per code for a
\* prefix of the codelist
RECURSIVE PrefixArgs(_)
PrefixArgs(codelist) ==
    IF codelist = <<>> THEN {<<>>}
    ELSE {<<>>} \cup {<<v>> \o rest : v \in CodeArgs(Head(codelist)),
                                      rest \in PrefixArgs(Tail(codelist))}

\* ... and one value more than there are codes, which zip drops
ValueArgs(codelist) ==
    PrefixArgs(codelist)
    \cup {values \o <<PyStr("hi")>> :
            values \in {v \in PrefixArgs(codelist) : Len(v) = Len(codelist)}}

\* the keyword arguments of new_cell: none or one, in call order
KwArg(code, value) == [code |-> code, value |-> value]
KwArgs(codelist) ==
    {<<>>} \cup UNION {{<<KwArg(code, value)>> : value \in CodeArgs(code)} :
                          code \in {"ordinal", "offset", "x", UnknownCode}}

\* the codes zip(self.parent.codelist, values) pairs with a value
zipped_codes(codelist, values) ==
    {codelist[i] : i \in 1..Min({Len(codelist), Len(values)})}

\* for code, value in kwargs.items(): c.change_code(code, value)
RECURSIVE apply_kwargs(_, _)
apply_kwargs(cell, kwargs) ==
    IF kwargs = <<>> THEN cell
    ELSE apply_kwargs(change_code(cell, Head(kwargs).code, Head(kwargs).value),
                      Tail(kwargs))

\* the first change_code of that loop that raises ends new_cell
RECURSIVE kwargs_raise(_, _)
kwargs_raise(cell, kwargs) ==
    IF kwargs = <<>> THEN FALSE
    ELSE \/ change_code_raises(cell, Head(kwargs).code)
         \/ kwargs_raise(change_code(cell, Head(kwargs).code, Head(kwargs).value),
                         Tail(kwargs))

\* "Insert '' for undefined codes": change_code(code, "") for every code of
\* the codelist that is not a key of values
RECURSIVE insert_undefined(_, _)
insert_undefined(cell, codelist) ==
    IF codelist = <<>> THEN cell
    ELSE insert_undefined(
            IF Head(codelist) \in DOMAIN cell.values THEN cell
            ELSE change_code(cell, Head(codelist), PyStr("")),
            Tail(codelist))

\* Column.new_cell(*values, **kwargs): the new Cell
new_cell_kwargs(col, values, kwargs) ==
    insert_undefined(
        apply_kwargs(set_values(Cell_init(col), col.codelist, values), kwargs),
        col.codelist)

\* cell = col.new_cell(*values, **kwargs); a call that raises appends nothing
CellNewCell(values, kwargs) ==
    LET col == columns[1]
        raised == kwargs_raise(set_values(Cell_init(col), col.codelist, values),
                               kwargs)
    IN  /\ Len(col.cells) < MaxCells
        /\ columns' =
             IF raised THEN columns
             ELSE <<[col EXCEPT !.cells =
                        Append(@, new_cell_kwargs(col, values, kwargs))]>>
        /\ call' = [op |-> "new_cell",
                    cell |-> IF raised THEN 0 ELSE Len(col.cells) + 1,
                    codes |-> zipped_codes(col.codelist, values)
                              \cup {kwargs[i].code : i \in 1..Len(kwargs)},
                    raised |-> raised]
        /\ UNCHANGED <<sheets, ret, files>>

\* cell.set_values(*values) on the i-th cell
CellSetValues(i, values) ==
    LET col == columns[1]
    IN  /\ columns' = <<[col EXCEPT !.cells[i] =
                            set_values(@, col.codelist, values)]>>
        /\ call' = [op |-> "set_values", cell |-> i,
                    codes |-> zipped_codes(col.codelist, values),
                    raised |-> FALSE]
        /\ UNCHANGED <<sheets, ret, files>>

\* cell.change_code(code, value) on the i-th cell; on an unknown code it raises
CellChangeCode(i, code, value) ==
    LET col == columns[1]
    IN  /\ columns' = <<[col EXCEPT !.cells[i] = change_code(@, code, value)]>>
        /\ call' = [op |-> "change_code", cell |-> i, codes |-> {code},
                    raised |-> change_code_raises(col.cells[i], code)]
        /\ UNCHANGED <<sheets, ret, files>>

\* col = Column("A", *codes)
InitCells ==
    /\ columns \in {<<Column_init("A", codelist)>> : codelist \in CellCodelists}
    /\ sheets = <<>>
    /\ call = NoCall
    /\ ret = NoColumn
    /\ db = <<>>
    /\ fs = NoFiles
    /\ pc = "idle"

NextCells ==
    \/ \E values \in ValueArgs(columns[1].codelist) :
         \E kwargs \in KwArgs(columns[1].codelist) : CellNewCell(values, kwargs)
    \/ \E i \in 1..Len(columns[1].cells) :
         \E values \in ValueArgs(columns[1].codelist) : CellSetValues(i, values)
    \/ \E i \in 1..Len(columns[1].cells) :
         \E code \in Range(columns[1].codelist) \cup Intrinsics \cup {UnknownCode} :
           \E value \in CodeArgs(code) : CellChangeCode(i, code, value)

SpecCells == InitCells /\ [][NextCells]_vars

\* the keys of every cell's values are exactly the codes of the codelist
CellKeys ==
    \A i \in 1..Len(columns[1].cells) :
        DOMAIN columns[1].cells[i].values = Range(columns[1].codelist)

\* a value is other than "" only through a call that names its code: a new
\* cell has "" under every code its call did not name, and a call changes a
\* value only in the cell it is made on and under a code it names
OnlyNamedCodesChange ==
    \A i \in 1..Len(columns'[1].cells) :
        \A k \in DOMAIN columns'[1].cells[i].values :
            IF i <= Len(columns[1].cells)
            THEN (/\ k \in DOMAIN columns[1].cells[i].values
                  /\ columns'[1].cells[i].values[k] # columns[1].cells[i].values[k])
                 => (call'.cell = i /\ k \in call'.codes)
            ELSE k \notin call'.codes => columns'[1].cells[i].values[k] = PyStr("")

\* C11: after any sequence of new_cell, set_values and change_code calls, the
\* failing ones and the writes to ordinal, onset and offset included, the key
\* set of every cell's values equals the set of codes of its column's
\* codelist, and every code no call has set holds "".
C11_ValuesKeyedByCodelist == []CellKeys /\ [][OnlyNamedCodesChange]_vars

\* C11 witness: the last call was a change_code that raised on an unknown
\* code; the cell's onset has been written, and its values still have the two
\* keys of the codelist, "x" set and "onset" never written
C11_Witness ==
    /\ call.op = "change_code"
    /\ call.raised
    /\ columns[1].codelist = <<"x", "onset">>
    /\ \E i \in 1..Len(columns[1].cells) :
         /\ call.cell = i
         /\ columns[1].cells[i].onset = 1
         /\ DOMAIN columns[1].cells[i].values = {"onset", "x"}
         /\ columns[1].cells[i].values["x"] = PyStr("hi")
         /\ columns[1].cells[i].values["onset"] = PyStr("")

=============================================================================
